---------------------------- MODULE Spec2Model ----------------------------
(***************************************************************************)
(* Model of Mmani/embedding/spectral_embedding.py:                         *)
(*   _graph_connected_component, _graph_is_connected   (connectivity)      *)
(*   _set_diag                                         (Laplacian diag)    *)
(*   spectral_embedding, SpectralEmbedding.fit/fit_transform (pipeline)    *)
(* Three specifications share the variables; each one draws the inputs of  *)
(* its functions from bounded sets in its initial predicate and leaves the *)
(* variables of the other two at their idle values.                        *)
(*   SpecConn  - the expansion loop of _graph_connected_component, step by *)
(*               step, and _graph_is_connected                             *)
(*   SpecDiag  - _set_diag on dense and sparse (COO) matrices              *)
(*   SpecEmbed - spectral_embedding, fit and fit_transform                 *)
(* Python indices are 0-based: graphs and matrices are functions over      *)
(* 0..n-1; the rows of the eigenvector array are sequences and the Python  *)
(* slices on them are computed by PySlice / PySliceRev.                    *)
(***************************************************************************)
EXTENDS Integers, Sequences, FiniteSets, TLC

VARIABLES
    graph,                 \* dense adjacency matrix given to the connectivity code
    node_id,               \* start node of _graph_connected_component
    connected_components,  \* the boolean array of _graph_connected_component
    iter,                  \* iterations of the expansion loop completed
    pc,                    \* "start" | "loop" | "returned" | "idle"
    is_connected,          \* <<result>> of _graph_is_connected, <<>> before the call
    laplacian,             \* the matrix given to _set_diag
    value,                 \* the value given to _set_diag
    conditioned,           \* <<the matrix _set_diag returned>>, <<>> before the call
    call,                  \* the arguments of the spectral_embedding call
    outcome,               \* <<what spectral_embedding did>>, <<>> before the call
    estimator              \* the SpectralEmbedding object

vars == <<graph, node_id, connected_components, iter, pc, is_connected,
          laplacian, value, conditioned, call, outcome, estimator>>

connVars == <<graph, node_id, connected_components, iter, pc, is_connected>>
diagVars == <<laplacian, value, conditioned>>
embedVars == <<call, outcome, estimator>>

\* ------------------------------------------------------------------ bounds
\* largest number of nodes of a graph given to the connectivity code
MaxNodes == 3

Min(a, b) == IF a < b THEN a ELSE b

\* ------------------------------------------------------------ connectivity
\* graph.shape[0]
Shape0(g) == Cardinality(DOMAIN g)

\* connected_components.sum(): the number of True entries
Sum(cc) == Cardinality({v \in DOMAIN cc : cc[v]})

\* a first-row-only expansion: only the row of the lowest reached node is read
node_to_add_first_row(g, cc) ==
    LET reached == {v \in DOMAIN cc : cc[v]}
        first == CHOOSE v \in reached : \A w \in reached : v <= w
    IN  {j \in DOMAIN g : g[first][j] # 0}

\* _, node_to_add = np.where(graph[connected_components] != 0):
\* the columns holding a non-zero entry in the row of some reached node
node_to_add(g, cc) ==
    {j \in DOMAIN g : \E i \in DOMAIN cc : cc[i] /\ g[i][j] # 0}

\* connected_components[node_to_add] = True
Expand(g, cc) == [v \in DOMAIN cc |-> cc[v] \/ v \in node_to_add(g, cc)]

\* a break test with the comparison turned round
ShouldBreakFlipped(last_num_component, now) == last_num_component <= now

\* if last_num_component >= connected_components.sum(): break
ShouldBreak(last_num_component, now) == last_num_component >= now

\* for i in range(n_node): the body, from iteration i on, as the code runs it
RECURSIVE ExpansionLoop(_, _, _)
ExpansionLoop(g, cc, i) ==
    IF i >= Shape0(g) THEN cc
    ELSE LET new == Expand(g, cc)
         IN  IF ShouldBreak(Sum(cc), Sum(new)) THEN new
             ELSE ExpansionLoop(g, new, i + 1)

\* _graph_connected_component(graph, node_id), the whole function
_graph_connected_component(g, n) ==
    ExpansionLoop(g, [v \in DOMAIN g |-> v = n], 0)

\* the graph with every edge taken in both directions
Undirected(g) ==
    [i \in DOMAIN g |-> [j \in DOMAIN g |->
        IF g[i][j] # 0 \/ g[j][i] # 0 THEN 1 ELSE 0]]

\* the least node of a component given as a boolean array
LeastNode(cc) ==
    CHOOSE m \in DOMAIN cc : cc[m] /\ \A w \in DOMAIN cc : cc[w] => m <= w

\* the labels of the nodes of an undirected graph: each node is labelled with
\* the least node of its component
Labels(und) ==
    {LeastNode(_graph_connected_component(und, v)) : v \in DOMAIN und}

\* sklearn.utils.sparsetools.connected_components(graph)[0]: the number of
\* (weakly) connected components, the number of distinct labels
n_connected_components(g) == Cardinality(Labels(Undirected(g)))

\* _graph_is_connected(graph); sp is sparse.isspmatrix(graph)
_graph_is_connected(g, sp) ==
    IF sp THEN n_connected_components(g) = 1
    ELSE Sum(_graph_connected_component(g, 0)) = Shape0(g)

Weights == {0, 1}

DenseGraphs(n) == [0 .. n - 1 -> [0 .. n - 1 -> Weights]]

IdleDiag == laplacian = <<>> /\ value = 0 /\ conditioned = <<>>
IdleEmbed == call = <<>> /\ outcome = <<>> /\ estimator = <<>>
IdleConn ==
    /\ graph = <<>> /\ node_id = 0 /\ connected_components = <<>>
    /\ iter = 0 /\ pc = "idle" /\ is_connected = <<>>

InitConn ==
    /\ \E n \in 1 .. MaxNodes :
          /\ graph \in DenseGraphs(n)
          /\ node_id \in 0 .. n - 1
    /\ connected_components = <<>>
    /\ iter = 0
    /\ pc = "start"
    /\ is_connected = <<>>
    /\ IdleDiag
    /\ IdleEmbed

\* lines 40-42: the array (dtype np.bool, the boolean type) is all False but
\* for the start node
BeginComponent ==
    /\ pc = "start"
    /\ connected_components' = [v \in DOMAIN graph |-> v = node_id]
    /\ iter' = 0
    /\ pc' = "loop"
    /\ UNCHANGED <<graph, node_id, is_connected>>
    /\ UNCHANGED <<diagVars, embedVars>>

\* lines 43-48: one iteration of the loop; the loop is left by the break or
\* when range(n_node) is used up
LoopIteration ==
    /\ pc = "loop"
    /\ iter < Shape0(graph)
    /\ LET last_num_component == Sum(connected_components)
           new == Expand(graph, connected_components)
       IN  /\ connected_components' = new
           /\ iter' = iter + 1
           /\ pc' = IF ShouldBreak(last_num_component, Sum(new)) THEN "returned"
                    ELSE IF iter + 1 >= Shape0(graph) THEN "exhausted"
                    ELSE "loop"
    /\ UNCHANGED <<graph, node_id, is_connected>>
    /\ UNCHANGED <<diagVars, embedVars>>

\* lines 66-72 on the dense graph: the component of node 0 is all the nodes
GraphIsConnected ==
    /\ pc \in {"returned", "exhausted"}
    /\ node_id = 0
    /\ is_connected = <<>>
    /\ is_connected' = <<_graph_is_connected(graph, FALSE)>>
    /\ UNCHANGED <<graph, node_id, connected_components, iter, pc>>
    /\ UNCHANGED <<diagVars, embedVars>>

NextConn == BeginComponent \/ LoopIteration \/ GraphIsConnected

SpecConn == InitConn /\ [][NextConn]_vars

\* ------------------------------------------------- claims on connectivity
Nodes(g) == DOMAIN g

Symmetric(g) == \A i, j \in Nodes(g) : g[i][j] = g[j][i]

\* the reachability relation of g (paths of non-zero entries, of any length,
\* the empty path included), by closing over the intermediate nodes one by one
RECURSIVE PathClosure(_, _, _)
PathClosure(r, k, n) ==
    IF k >= n THEN r
    ELSE PathClosure([i \in DOMAIN r |-> [j \in DOMAIN r |->
                         r[i][j] \/ (r[i][k] /\ r[k][j])]], k + 1, n)

Reaches(g) ==
    PathClosure([i \in Nodes(g) |-> [j \in Nodes(g) |-> i = j \/ g[i][j] # 0]],
                0, Shape0(g))

AllReachableFromZero(g) == \A v \in Nodes(g) : Reaches(g)[0][v]

ComponentCount(g) ==
    Cardinality({{w \in Nodes(g) : Reaches(g)[v][w]} : v \in Nodes(g)})

IsClique(g) == \A i, j \in Nodes(g) : i # j => g[i][j] # 0

TwoDisjointCliques(g) ==
    \E A \in SUBSET Nodes(g) :
        /\ A # {} /\ A # Nodes(g)
        /\ \A i, j \in Nodes(g) : i # j => (g[i][j] # 0 <=> (i \in A <=> j \in A))

\* C4: on a dense symmetric graph _graph_is_connected returns true exactly when
\* every node is reachable from node 0 through non-zero entries, that is when
\* the graph has one connected component; true for a clique, false for two
\* disjoint cliques.
C4_ConnectedIffReachable ==
    (is_connected # <<>> /\ Symmetric(graph)) =>
        /\ is_connected[1] <=> AllReachableFromZero(graph)
        /\ is_connected[1] <=> (ComponentCount(graph) = 1)
        /\ IsClique(graph) => is_connected[1]
        /\ TwoDisjointCliques(graph) => ~is_connected[1]

\* two disjoint cliques on three nodes were reported as not connected
C4_Witness ==
    /\ is_connected = <<FALSE>>
    /\ Symmetric(graph)
    /\ Shape0(graph) = 3
    /\ TwoDisjointCliques(graph)

LoopExited == pc \in {"returned", "exhausted"}

\* no unreached node has a non-zero entry in the row of a reached node
FixedPoint(g, cc) ==
    \A i, j \in Nodes(g) : (cc[i] /\ g[i][j] # 0) => cc[j]

\* C10: for every dense graph and start node the expansion loop runs at most N
\* iterations, and when it is left the reached set is a fixed point: the cap of
\* N iterations never cuts the expansion short.
C10_LoopEndsAtFixedPoint ==
    /\ pc \in {"loop", "returned", "exhausted"} => iter <= Shape0(graph)
    /\ pc = "loop" => iter < Shape0(graph)
    /\ LoopExited => FixedPoint(graph, connected_components)

\* a loop that needed all N iterations: N - 1 growing ones and the one that
\* found nothing more to add
C10_Witness ==
    /\ pc = "returned"
    /\ Shape0(graph) >= 3
    /\ iter = Shape0(graph)
    /\ Sum(connected_components) = Shape0(graph)

\* the loop, taken step by step, ends in what the whole function returns
StepsAgreeWithFunction ==
    LoopExited =>
        connected_components = _graph_connected_component(graph, node_id)

\* ---------------------------------------------------------------- _set_diag
\* largest order of a matrix given to _set_diag
MaxOrder == 5

\* if n_diags <= 7
MaxDiagonals == 7

\* the values given as the new diagonal
DiagValues == {1, 5}

\* the entry stored at row i, column j of an input matrix: every stored entry
\* is non-zero and tells its position
Code(i, j) == 10 * i + j + 1

\* the set S of numbers as the ascending sequence
RECURSIVE Ascending(_)
Ascending(S) ==
    IF S = {} THEN << >>
    ELSE LET m == CHOOSE x \in S : \A y \in S : x <= y
         IN  <<m>> \o Ascending(S \ {m})

\* the positions <<i, j>> in P, row by row
RowMajor(P, n) ==
    LET keys == Ascending({p[1] * n + p[2] : p \in P})
    IN  [k \in 1 .. Len(keys) |-> <<keys[k] \div n, keys[k] % n>>]

\* a dense array holding Code at the positions of P and zero elsewhere
DenseMatrix(n, P) ==
    [kind |-> "dense", n |-> n,
     a |-> [i \in 0 .. n - 1 |-> [j \in 0 .. n - 1 |->
              IF <<i, j>> \in P THEN Code(i, j) ELSE 0]]]

\* laplacian.tocoo(): the row, col and data arrays of the stored entries
CooMatrix(n, P) ==
    LET pos == RowMajor(P, n)
    IN  [kind |-> "coo", n |-> n,
         row |-> [k \in 1 .. Len(pos) |-> pos[k][1]],
         col |-> [k \in 1 .. Len(pos) |-> pos[k][2]],
         data |-> [k \in 1 .. Len(pos) |-> Code(pos[k][1], pos[k][2])]]

RECURSIVE SumOver(_, _)
SumOver(f, S) ==
    IF S = {} THEN 0
    ELSE LET x == CHOOSE y \in S : TRUE IN f[x] + SumOver(f, S \ {x})

\* coo.todia(): one data row per distinct offset col - row, in ascending order,
\* indexed by column; entries with the same position add up
todia(m) ==
    LET offs == Ascending({m.col[k] - m.row[k] : k \in 1 .. Len(m.data)})
    IN  [kind |-> "dia", n |-> m.n, offsets |-> offs,
         data |-> [d \in 1 .. Len(offs) |-> [j \in 0 .. m.n - 1 |->
                     SumOver(m.data, {k \in 1 .. Len(m.data) :
                                        /\ m.col[k] - m.row[k] = offs[d]
                                        /\ m.col[k] = j})]]]

\* coo.tocsr(): the entries row by row, columns ascending within a row;
\* entries with the same position add up
tocsr(m) ==
    LET pos == RowMajor({<<m.row[k], m.col[k]>> : k \in 1 .. Len(m.data)}, m.n)
    IN  [kind |-> "csr", n |-> m.n,
         indptr |-> [r \in 1 .. m.n + 1 |->
                       Cardinality({k \in 1 .. Len(pos) : pos[k][1] < r - 1})],
         indices |-> [k \in 1 .. Len(pos) |-> pos[k][2]],
         data |-> [k \in 1 .. Len(pos) |->
                     SumOver(m.data, {q \in 1 .. Len(m.data) :
                                        /\ m.row[q] = pos[k][1]
                                        /\ m.col[q] = pos[k][2]})]]

\* the entry at row i, column j of a matrix in any of the four layouts
\* (what m[i, j] or m.toarray()[i, j] gives)
Entry(m, i, j) ==
    CASE m.kind = "dense" -> m.a[i][j]
      [] m.kind = "coo" ->
            SumOver(m.data, {k \in 1 .. Len(m.data) : m.row[k] = i /\ m.col[k] = j})
      [] m.kind = "dia" ->
            IF \E d \in 1 .. Len(m.offsets) : m.offsets[d] = j - i
            THEN m.data[CHOOSE d \in 1 .. Len(m.offsets) : m.offsets[d] = j - i][j]
            ELSE 0
      [] m.kind = "csr" ->
            SumOver(m.data, {k \in (m.indptr[i + 1] + 1) .. m.indptr[i + 2] :
                               m.indices[k] = j})

\* laplacian.flat[::n_nodes + 1] = value on a dense array
SetFlatStride(m, v) ==
    [m EXCEPT !.a = [i \in 0 .. m.n - 1 |-> [j \in 0 .. m.n - 1 |->
                        IF (i * m.n + j) % (m.n + 1) = 0 THEN v ELSE m.a[i][j]]]]

\* diag_idx = (laplacian.row == laplacian.col); laplacian.data[diag_idx] = value
SetStoredDiag(m, v) ==
    [m EXCEPT !.data = [k \in 1 .. Len(m.data) |->
                          IF m.row[k] = m.col[k] THEN v ELSE m.data[k]]]

\* n_diags = np.unique(laplacian.row - laplacian.col).size
n_diags(m) == Cardinality({m.row[k] - m.col[k] : k \in 1 .. Len(m.data)})

\* _set_diag(laplacian, value); a sparse matrix is given as tocoo() lists it
_set_diag(m, v) ==
    IF m.kind = "dense" THEN SetFlatStride(m, v)
    ELSE LET coo == SetStoredDiag(m, v)
         IN  IF n_diags(coo) <= MaxDiagonals THEN todia(coo) ELSE tocsr(coo)

\* the stored positions of an input: the off-diagonals with an offset in O, in
\* full, and the diagonal positions in D
Pattern(n, O, D) ==
    {<<i, j>> \in (0 .. n - 1) \X (0 .. n - 1) :
        (i # j /\ (j - i) \in O) \/ (i = j /\ i \in D)}

Offsets(n) == (1 - n .. n - 1) \ {0}

InitDiag ==
    /\ \E n \in 1 .. MaxOrder :
       \E O \in SUBSET Offsets(n) :
       \E D \in SUBSET (0 .. n - 1) :
          \/ laplacian = DenseMatrix(n, Pattern(n, O, D))
          \/ laplacian = CooMatrix(n, Pattern(n, O, D))
    /\ value \in DiagValues
    /\ conditioned = << >>
    /\ IdleConn
    /\ IdleEmbed

\* lines 93-112, the whole function. The variable laplacian keeps the matrix as
\* it was given; for a dense array the object returned is the array itself.
SetDiag ==
    /\ laplacian # << >>
    /\ conditioned = << >>
    /\ conditioned' = <<_set_diag(laplacian, value)>>
    /\ UNCHANGED <<laplacian, value>>
    /\ UNCHANGED <<connVars, embedVars>>

NextDiag == SetDiag

SpecDiag == InitDiag /\ [][NextDiag]_vars

\* ----------------------------------------------------- claims on _set_diag
Order(m) == 0 .. m.n - 1

\* C9: the matrix returned by _set_diag has every diagonal entry equal to value
\* and every off-diagonal entry equal to the entry of the input, for dense and
\* for sparse input (diagonal positions without a stored entry included) and
\* in either layout.
C9_DiagSetOffDiagKept ==
    conditioned # << >> =>
        /\ \A i \in Order(laplacian) : Entry(conditioned[1], i, i) = value
        /\ \A i, j \in Order(laplacian) :
              i # j => Entry(conditioned[1], i, j) = Entry(laplacian, i, j)

\* what the code does establish: the off-diagonal entries are kept, the
\* diagonal entries that were stored are set, and a diagonal position of a
\* sparse matrix that held no entry still holds none
SetDiagStoredOnly ==
    conditioned # << >> =>
        /\ \A i, j \in Order(laplacian) :
              i # j => Entry(conditioned[1], i, j) = Entry(laplacian, i, j)
        /\ \A i \in Order(laplacian) :
              Entry(conditioned[1], i, i) =
                 IF laplacian.kind = "dense" \/ Entry(laplacian, i, i) # 0
                 THEN value ELSE 0
        /\ conditioned[1].kind =
              IF laplacian.kind = "dense" THEN "dense"
              ELSE IF n_diags(laplacian) <= MaxDiagonals THEN "dia" ELSE "csr"

\* ------------------------------------------------------ spectral_embedding
\* largest number of samples N of a Geometry
MaxSamples == 3

\* largest n_components asked for
MaxComponents == 4

Max(a, b) == IF a > b THEN a ELSE b

\* A two-dimensional array is [shape |-> <<rows, columns>>, a |-> rows], the
\* rows and the entries of a row indexed from 0.

\* m.T
Transpose(m) ==
    [shape |-> <<m.shape[2], m.shape[1]>>,
     a |-> [i \in 0 .. m.shape[2] - 1 |-> [j \in 0 .. m.shape[1] - 1 |->
              m.a[j][i]]]]

\* m[start::-1] for start >= 0: the rows from min(start, rows - 1) down to 0
PySliceRev(m, start) ==
    LET first == Min(start, m.shape[1] - 1)
    IN  [shape |-> <<first + 1, m.shape[2]>>,
         a |-> [i \in 0 .. first |-> m.a[first - i]]]

\* m[lo:hi] for 0 <= lo, 0 <= hi: both ends are clipped to the number of rows
PySlice(m, lo, hi) ==
    LET from == Min(lo, m.shape[1])
        to == Min(hi, m.shape[1])
    IN  [shape |-> <<Max(to - from, 0), m.shape[2]>>,
         a |-> [i \in 0 .. to - from - 1 |-> m.a[from + i]]]

\* the integer square root of a degree
Root(d) == CHOOSE r \in 0 .. d : r * r <= d /\ (r + 1) * (r + 1) > d

\* a rescaling by the square roots of the degrees
TimesVectorRoot(m, v) ==
    [m EXCEPT !.a = [i \in 0 .. m.shape[1] - 1 |-> [j \in 0 .. m.shape[2] - 1 |->
                        m.a[i][j] * Root(v[j])]]]

\* m * dd, the one-dimensional dd broadcast along the rows: entry [r, c] is
\* multiplied by dd[c]
TimesVector(m, v) ==
    [m EXCEPT !.a = [i \in 0 .. m.shape[1] - 1 |-> [j \in 0 .. m.shape[2] - 1 |->
                        m.a[i][j] * v[j]]]]

\* laplacian.diagonal()
diagonal(lap) == [i \in DOMAIN lap |-> lap[i][i]]

\* a warning given whatever the check found
warn_always(connected) == <<"warn">>

\* if not _graph_is_connected(affinity_matrix): warnings.warn(...)
warn_if_disconnected(connected) == IF connected THEN << >> ELSE <<"warn">>

\* the arguments of the call of eigen_decomposition that this model reads:
\* n_components and drop_first, both passed on as they were given
eigen_call_args(n_components, drop_first) ==
    [n_components |-> n_components, drop_first |-> drop_first]

\* entry i of the eigenvector with the e-th smallest eigenvalue (e from 0) of
\* the solver's basis: it tells e and i, up to the sign the solver settled on
EigenVector(e, i, sign) == sign * (10 * (e + 1) + i + 1)

\* eigen_decomposition(laplacian, n_components, ..., drop_first): eigenpairs
\* by ascending eigenvalue, the eigenvectors as the columns of an N x m array.
\* It returns the n_components it is handed; what it makes of drop_first is
\* not in this file, so extra (0 or 1) is the number of eigenvectors it adds
\* when drop_first is set. A matrix of order N has no more than N of them.
eigen_decomposition(n, sign, extra, args) ==
    LET m == Min(args.n_components + (IF args.drop_first THEN extra ELSE 0), n)
    IN  [lambdas |-> [e \in 0 .. m - 1 |-> e],
         diffusion_map |->
            [shape |-> <<n, m>>,
             a |-> [i \in 0 .. n - 1 |-> [e \in 0 .. m - 1 |->
                      EigenVector(e, i, sign)]]]]

NoArray == [shape |-> <<0, 0>>, a |-> << >>]

\* spectral_embedding(Geometry, n_components, eigen_solver, random_state,
\* eigen_tol, drop_first), the whole function: what it raised or returned, the
\* calls it made in their order, the arguments it handed to eigen_decomposition
\* and the number of eigenvectors that came back
spectral_embedding(c) ==
    IF ~c.is_geometry
    THEN [status |-> "RuntimeError", events |-> << >>,
          request |-> [n_components |-> 0, drop_first |-> FALSE], pairs_returned |-> 0,
          dd |-> << >>, embedding |-> NoArray]
    ELSE
      LET connected == _graph_is_connected(c.affinity, c.affinity_sparse)
          dd == diagonal(c.laplacian)
          args == eigen_call_args(c.n_components, c.drop_first)
          solved == eigen_decomposition(Shape0(c.laplacian), c.sign,
                                        c.solver_extra, args)
          embedding ==
              TimesVector(PySliceRev(Transpose(solved.diffusion_map),
                                     c.n_components), dd)
      IN  [status |-> "returned",
           events |-> <<"get_affinity_matrix">> \o warn_if_disconnected(connected)
                        \o <<"get_laplacian_matrix", "eigen_decomposition">>,
           request |-> args,
           pairs_returned |-> solved.diffusion_map.shape[2],
           dd |-> dd,
           embedding |->
              IF c.drop_first
              THEN Transpose(PySlice(embedding, 1, c.n_components))
              ELSE Transpose(PySlice(embedding, 0, c.n_components))]

\* the names bound in the body of fit: its parameters and its one local
FitLocals == {"self", "X", "y", "random_state"}

\* the names bound at module level: the imports, the functions and the class
ModuleGlobals ==
    {"warnings", "np", "geom", "eigen_decomposition", "sparse", "BaseEstimator",
     "TransformerMixin", "check_random_state", "connected_components",
     "_graph_connected_component", "_graph_is_connected", "_set_diag",
     "spectral_embedding", "SpectralEmbedding"}

\* whether a bare name can be read in the body of fit
NameBound(name) == name \in FitLocals \cup ModuleGlobals

\* SpectralEmbedding.fit(X): the estimator after the call, with what the call
\* raised. c is the Geometry built from X and the estimator's parameters;
\* spectral_embedding is called with drop_first left at its default, True.
fit(est, c) ==
    IF ~NameBound("is_affinity")
    THEN [est EXCEPT !.raised = "NameError"]
    ELSE LET r == spectral_embedding([c EXCEPT !.is_geometry = TRUE,
                                               !.n_components = est.n_components,
                                               !.drop_first = TRUE])
         IN  [est EXCEPT !.embedding_ = <<r.embedding>>]

\* SpectralEmbedding.fit_transform(X): the estimator after the call and what
\* the call returned
fit_transform(est, c) ==
    LET after == fit(est, c)
    IN  IF after.raised # "none" THEN [est |-> after, returned |-> << >>]
        ELSE [est |-> after, returned |-> after.embedding_]

\* the affinity matrices: symmetric, 0 or 1 off the diagonal, 0 on it
Affinities(n) ==
    {g \in DenseGraphs(n) :
        \A i, j \in 0 .. n - 1 : g[i][j] = g[j][i] /\ g[i][i] = 0}

\* the diagonal entries of a Laplacian
Degrees == {1, 4}

\* the Laplacian of the Geometry: a degree on the diagonal, the negated
\* affinity off it
LaplacianOf(aff, deg) ==
    [i \in DOMAIN aff |-> [j \in DOMAIN aff |->
        IF i = j THEN deg[i] ELSE 0 - aff[i][j]]]

InitEmbed ==
    /\ \E n \in 1 .. MaxSamples :
       \E aff \in Affinities(n) :
       \E deg \in [0 .. n - 1 -> Degrees] :
       \E k \in 1 .. MaxComponents :
       \E geo, sp, drop \in BOOLEAN :
       \E sign \in {1, -1} :
       \E extra \in (IF drop THEN {0, 1} ELSE {0}) :
          /\ call = [is_geometry |-> geo, affinity |-> aff, affinity_sparse |-> sp,
                     laplacian |-> LaplacianOf(aff, deg), sign |-> sign,
                     solver_extra |-> extra,
                     n_components |-> k, drop_first |-> drop]
          /\ estimator = [n_components |-> k, embedding_ |-> << >>,
                          raised |-> "none", method |-> "none",
                          returned |-> << >>]
    /\ outcome = << >>
    /\ IdleConn
    /\ IdleDiag

\* a call of spectral_embedding with the arguments in call
SpectralEmbeddingCall ==
    /\ call # << >>
    /\ outcome = << >>
    /\ outcome' = <<spectral_embedding(call)>>
    /\ UNCHANGED <<call, estimator>>
    /\ UNCHANGED <<connVars, diagVars>>

\* estimator.fit(X) on a fresh estimator, X the data of the Geometry in call
Fit ==
    /\ call # << >>
    /\ estimator.method = "none"
    /\ estimator' = [fit(estimator, call) EXCEPT !.method = "fit"]
    /\ UNCHANGED <<call, outcome>>
    /\ UNCHANGED <<connVars, diagVars>>

\* estimator.fit_transform(X) on a fresh estimator
FitTransform ==
    /\ call # << >>
    /\ estimator.method = "none"
    /\ LET r == fit_transform(estimator, call)
       IN  estimator' = [r.est EXCEPT !.method = "fit_transform",
                                      !.returned = r.returned]
    /\ UNCHANGED <<call, outcome>>
    /\ UNCHANGED <<connVars, diagVars>>

NextEmbed == SpectralEmbeddingCall \/ Fit \/ FitTransform

SpecEmbed == InitEmbed /\ [][NextEmbed]_vars

\* ------------------------------------------- claims on spectral_embedding
K == call.n_components
N == Shape0(call.laplacian)
Samples == 0 .. N - 1

Called == outcome # << >>
Returned == Called /\ outcome[1].status = "returned"
Result == outcome[1].embedding
Columns == 0 .. Result.shape[2] - 1

\* the eigenvector with the e-th smallest eigenvalue, every entry multiplied
\* by the diagonal entry of the Laplacian in its row
ScaledEigenVector(e) ==
    [i \in Samples |-> EigenVector(e, i, call.sign) * call.laplacian[i][i]]

\* column j of the matrix returned
ColumnOf(j) == [i \in Samples |-> Result.a[i][j]]

\* the solver returned the number of eigenvectors the pipeline is to have:
\* k, or k + 1 when drop_first is set
SolverReturnsAssigned ==
    outcome[1].pairs_returned = (IF call.drop_first THEN K + 1 ELSE K)

\* C1: for 1 <= k < N and either drop_first, given a solver that returns k
\* eigenvectors (k + 1 with drop_first), the matrix returned has N rows, row
\* i made of the entries of sample i, and k columns.
C1_ShapeIsNByK ==
    (Returned /\ 1 <= K /\ K < N /\ SolverReturnsAssigned) =>
        /\ Result.shape = <<N, K>>
        /\ \A j \in Columns : \E e \in Samples : ColumnOf(j) = ScaledEigenVector(e)

\* C2: with drop_first set the columns returned are the eigenvectors of the k
\* smallest eigenvalues after the smallest: the smallest is left out and no
\* other one is.
C2_DropsOnlyTheFirst ==
    (Returned /\ call.drop_first /\ K < N /\ SolverReturnsAssigned) =>
        /\ {ColumnOf(j) : j \in Columns} = {ScaledEigenVector(e) : e \in 1 .. K}
        /\ \A j \in Columns : ColumnOf(j) # ScaledEigenVector(0)

\* what the slices of lines 200-204 select of the m eigenvectors returned:
\* those of index min(k, m - 1) down to 0, in that order; without drop_first
\* the first k of these, with drop_first the second to the k-th of these, k - 1
\* at most (of k + 1 returned, the first and the last are left out)
SelectionOfTheCode ==
    Returned =>
        LET m == outcome[1].pairs_returned
            top == Min(K, m - 1)
            skipped == IF call.drop_first THEN 1 ELSE 0
            kept == Max(Min(K, top + 1) - skipped, 0)
        IN  /\ Result.shape = <<N, kept>>
            /\ \A j \in Columns : ColumnOf(j) = ScaledEigenVector(top - skipped - j)

\* the matrix fit is to store for the Geometry in call
FitResult ==
    spectral_embedding([call EXCEPT !.is_geometry = TRUE, !.drop_first = TRUE]).embedding

\* C3: fit builds the Geometry, calls spectral_embedding, stores the matrix in
\* embedding_ and returns; fit_transform returns the matrix stored; neither
\* raises.
C3_FitStoresEmbedding ==
    estimator.method # "none" =>
        /\ estimator.raised = "none"
        /\ estimator.embedding_ = <<FitResult>>
        /\ estimator.method = "fit_transform" => estimator.returned = <<FitResult>>

\* one cell of the embedding, from the Laplacian, the solver's basis and the
\* parameters alone
ExpectedCell(i, j) ==
    LET m == Min(K + (IF call.drop_first THEN call.solver_extra ELSE 0), N)
        e == Min(K, m - 1) - (IF call.drop_first THEN 1 ELSE 0) - j
    IN  EigenVector(e, i, call.sign) * call.laplacian[i][i]

Count(seq, x) == Cardinality({k \in 1 .. Len(seq) : seq[k] = x})

Without(seq, x) == SelectSeq(seq, LAMBDA y : y # x)

\* C5: the warning is given exactly when the connectivity check reports the
\* graph as disconnected, once at most, and changes nothing else: the call goes
\* on to fetch the Laplacian and call the eigen-solver, and returns the matrix
\* that the Laplacian, the solver's output and the parameters determine.
C5_WarningOnly ==
    (Called /\ call.is_geometry) =>
        /\ outcome[1].status = "returned"
        /\ Count(outcome[1].events, "warn") =
              (IF _graph_is_connected(call.affinity, call.affinity_sparse)
               THEN 0 ELSE 1)
        /\ Without(outcome[1].events, "warn") =
              <<"get_affinity_matrix", "get_laplacian_matrix", "eigen_decomposition">>
        /\ \A i \in Samples : \A j \in Columns : Result.a[i][j] = ExpectedCell(i, j)

\* a call on a disconnected graph that warned and returned a matrix
C5_Witness ==
    /\ Returned
    /\ ComponentCount(call.affinity) > 1
    /\ Count(outcome[1].events, "warn") = 1
    /\ Result.shape[2] >= 1

\* C6: a call with n_components >= N ends in an error and returns no matrix.
C6_TooManyComponentsFails ==
    (Called /\ call.is_geometry /\ K >= N) => outcome[1].status # "returned"

\* C7: the eigen-decomposition is asked for k + 1 eigenpairs when drop_first
\* is set and for k when it is not: the number asked for is the n_components
\* handed to it.
C7_PairsAsked ==
    Returned =>
        outcome[1].request.n_components = (IF call.drop_first THEN K + 1 ELSE K)

\* what the call of lines 198-199 hands over: n_components and drop_first as
\* the caller gave them, whatever drop_first is
RequestOfTheCode ==
    Returned =>
        outcome[1].request = [n_components |-> K, drop_first |-> call.drop_first]

\* C8: every entry at row i of a column is entry i of the eigenvector chosen
\* for the column times the i-th diagonal entry of the Laplacian, as it is, no
\* square root taken; the factor is that of the row in every column.
C8_ScaledByRawDegree ==
    Returned =>
        \A j \in Columns : \E e \in Samples :
            \A i \in Samples :
                Result.a[i][j] = EigenVector(e, i, call.sign) * call.laplacian[i][i]

\* a matrix of two columns or more returned for degrees 1 and 4
C8_Witness ==
    /\ Returned
    /\ Result.shape[2] >= 2
    /\ \E i, h \in Samples : call.laplacian[i][i] = 4 /\ call.laplacian[h][h] = 1
    /\ \E i \in Samples : Result.a[i][0] = 4 * EigenVector(1, i, call.sign)

=============================================================================
